---- MODULE Spec2Model ----
(***************************************************************************)
(* Model of ha_mcp.ha_client.websocket.HAWebSocketClient: one client       *)
(* object, the task that calls connect()/disconnect() on it, the           *)
(* background listener task (which also runs _reconnect), a set of         *)
(* send_command callers, and the server end of the socket.                 *)
(*                                                                         *)
(* asyncio is single threaded and cooperative: the code between two        *)
(* awaits that suspend is one atomic step.  Every action below is one such *)
(* stretch of code.                                                        *)
(*                                                                         *)
(* Usage modelled: connect() and disconnect() are called one at a time by  *)
(* the owner of the client, and connect() is called on a client that has   *)
(* no listener task (fresh, after disconnect(), or after a failed          *)
(* connect()).  send_command may be called by any caller at any time.      *)
(*                                                                         *)
(* Also modelled: ha_mcp.ha_client.rest.HARestClient with its callers, and *)
(* the tools of ha_mcp.tools that write configuration, as concurrent tool  *)
(* calls whose reads, validations and writes may succeed or fail.          *)
(***************************************************************************)
EXTENDS Integers, FiniteSets, TLC

\* ---------------------------------------------------------------- bounds
\* Number of send_command invocations (one per caller).
NumCallers == 3
\* Size of the command permit pool.  The program uses Semaphore(10); the
\* model uses a smaller pool so that callers do run out of permits.
MaxPermits == 2
\* Size of the HTTP request permit pool (the program uses Semaphore(5)).
MaxRestPermits == 2

\* ------------------------------------------------------- program constants
initial_reconnect_delay == 1
max_reconnect_delay == 60

\* The callers of send_command, one invocation each.
Callers == 1..NumCallers

\* Number of tool calls the MCP server may be running at the same time.
NumCalls == 2
\* The tool calls; each ends and may start again with another tool.
Calls == 1..NumCalls

\* What a caller of save_dashboard_config puts into a dashboard.
Given == 0

\* settings.skip_confirm_default as shipped.
skip_confirm_default == FALSE

VARIABLES
    session,          \* self._session : "none" | "open" | "closed"
    ws,               \* self._ws      : "none" | "open" | "closed"
    msg_id,           \* self._msg_id
    pending,          \* self._pending : function  id -> caller owning the future
    listener_task,    \* self._listener_task : "none" | "task"
    connected,        \* self._connected
    semaphore,        \* free permits of self._semaphore
    reconnect_delay,  \* self._reconnect_delay
    should_reconnect, \* self._should_reconnect
    net,              \* server end of the current socket: "up" | "down"
    wire,             \* ids of commands written to the current socket, unanswered
    ctl,              \* where the task calling connect()/disconnect() stands
    connect_result,   \* how the last connect() ended
    lpc,              \* where the listener task stands
    cancel_requested, \* Task.cancel() was called on the listener task
    cpc,              \* where each send_command caller stands
    cid,              \* each caller's local msg_id
    fut,              \* each caller's future
    out,              \* the latest return of a send_command: <<caller, how>>
    auth_result,      \* auth result _authenticate returned on, current socket
    rest_session,     \* HARestClient._session : "none" | "open" | "closed"
    rest_semaphore,   \* free permits of HARestClient._semaphore
    rctl,             \* where the task calling the REST disconnect() stands
    rpc,              \* where each _request caller stands
    rout,             \* the latest return of a _request: <<caller, how>>
    reply,            \* what the HTTP call behind that return ended with
    rest_returned,    \* the latest REST connect()/disconnect() that returned
    tool,             \* the tool each MCP call runs, "none" when it runs none
    tpc,              \* where each tool call stands
    skip_confirm,     \* each tool call's skip_confirm argument
    validation_result,\* each tool call's validation_result
    confirmed,        \* confirm_change returned True to the tool call
    config,           \* the dashboard config each tool call holds
    dashboard         \* the Lovelace config stored in Home Assistant

\* The REST client shares no state with the WebSocket client.
restVars == <<rest_session, rest_semaphore, rctl, rpc, rout, reply,
              rest_returned>>

\* The tools keep no state between calls.  A dashboard config is kept as
\* the set of what it contains: the edits of the calls (each named by its
\* call) and Given, the content handed to save_dashboard_config.
toolVars == <<tool, tpc, skip_confirm, validation_result, confirmed, config,
              dashboard>>

vars == <<session, ws, msg_id, pending, listener_task, connected, semaphore,
          reconnect_delay, should_reconnect, net, wire, ctl, connect_result,
          lpc, cancel_requested, cpc, cid, fut, out, auth_result, restVars,
          toolVars>>

wsVars == <<session, ws, msg_id, pending, listener_task, connected, semaphore,
            reconnect_delay, should_reconnect, net, wire, ctl, connect_result,
            lpc, cancel_requested, cpc, cid, fut, out, auth_result>>

clientVars == <<session, ws, listener_task, connected, reconnect_delay,
                should_reconnect>>
callerVars == <<cpc, cid, fut, out>>
tableVars == <<msg_id, pending, semaphore>>

\* ---------------------------------------------------------------- helpers
Min(a, b) == IF a < b THEN a ELSE b

\* A future: not yet created, pending, cancelled, holding an exception
\* (HAConnectionLost) or holding a result (the response message).
NoFuture == [st |-> "none", id |-> 0, success |-> TRUE]
PendingFuture == [st |-> "pending", id |-> 0, success |-> TRUE]
CancelledFuture == [st |-> "cancelled", id |-> 0, success |-> TRUE]
LostFuture == [st |-> "exception", id |-> 0, success |-> TRUE]
ResultFuture(msg) == [st |-> "result", id |-> msg.id, success |-> msg.success]

\* future.done()
done(f) == f.st \in {"cancelled", "exception", "result"}

\* (variant used to test C17: removing one entry empties the table)
pop_clears(table, k) == [i \in {} |-> 0]

\* dict.pop(k, None) on the correlation table
pop(table, k) == [i \in (DOMAIN table) \ {k} |-> table[i]]

EmptyTable == [i \in {} |-> 0]

WsInit ==
    /\ session = "none"
    /\ ws = "none"
    /\ msg_id = 0
    /\ pending = EmptyTable
    /\ listener_task = "none"
    /\ connected = FALSE
    /\ semaphore = MaxPermits
    /\ reconnect_delay = initial_reconnect_delay
    /\ should_reconnect = TRUE
    /\ net = "down"
    /\ wire = {}
    /\ ctl = "idle"
    /\ connect_result = "none"
    /\ lpc = "none"
    /\ cancel_requested = FALSE
    /\ cpc = [c \in Callers |-> "idle"]
    /\ cid = [c \in Callers |-> 0]
    /\ fut = [c \in Callers |-> NoFuture]
    /\ out = <<0, "none">>
    /\ auth_result = "none"

\* HARestClient.__init__
RestInit ==
    /\ rest_session = "none"
    /\ rest_semaphore = MaxRestPermits
    /\ rctl = "idle"
    /\ rpc = [c \in Callers |-> "idle"]
    /\ rout = <<0, "none">>
    /\ reply = [kind |-> "none", status |-> 0, ctype |-> "text"]
    /\ rest_returned = "none"

\* No tool runs; the dashboard holds none of the edits to come.
ToolsInit ==
    /\ tool = [s \in Calls |-> "none"]
    /\ tpc = [s \in Calls |-> "idle"]
    /\ skip_confirm = [s \in Calls |-> FALSE]
    /\ validation_result = [s \in Calls |-> "none"]
    /\ confirmed = [s \in Calls |-> FALSE]
    /\ config = [s \in Calls |-> {}]
    /\ dashboard = {}

Init == WsInit /\ RestInit /\ ToolsInit

\* ------------------------------------------------------------ the server
\* What the server (or the network) may hand to a receive during the
\* handshake; "fail" is a socket failure: the receive raises.
Greetings == {"auth_required", "other", "fail"}
AuthReplies == {"auth_ok", "auth_invalid", "other", "fail"}

\* Frames the listener may read next: a response to a command on the wire,
\* a pushed event, a message without id, or a text frame that is not JSON.
Frame(k, i, s) == [kind |-> k, id |-> i, success |-> s]
InboundFrames ==
    {Frame("result", i, s) : i \in wire, s \in BOOLEAN}
        \cup {Frame(k, 0, TRUE) : k \in {"event", "other", "bad"}}

\* Whether a write to self._ws can succeed: never on None or a closed
\* socket, always on a healthy one, either way once the peer is gone.
SendOutcomes ==
    IF ws = "open" THEN (IF net = "up" THEN {TRUE} ELSE {TRUE, FALSE})
    ELSE {FALSE}

\* The server drops the connection (close frame, reset, error).
server_close ==
    /\ ws = "open"
    /\ net = "up"
    /\ net' = "down"
    /\ UNCHANGED <<restVars, toolVars, auth_result>>
    /\ UNCHANGED <<clientVars, tableVars, callerVars, wire, ctl,
                   connect_result, lpc, cancel_requested>>

\* ---------------------------------------------------------- _authenticate
\* Step 1: the greeting.
authenticate_greeting(g) ==
    IF g = "fail" THEN "Exception"
    ELSE IF g # "auth_required" THEN "HAConnectionError"
    ELSE "continue"

\* Step 2: sending the auth message.
authenticate_send(ok) == IF ok THEN "continue" ELSE "Exception"

\* (variant used to test C11: any auth result that arrives is accepted)
authenticate_result_lenient(r) == IF r = "fail" THEN "Exception" ELSE "ok"

\* Step 3: the auth result.
authenticate_result(r) ==
    IF r = "fail" THEN "Exception"
    ELSE IF r = "auth_ok" THEN "ok"
    ELSE IF r = "auth_invalid" THEN "HAAuthError"
    ELSE "HAConnectionError"

\* Steps 1 and 2 together (no suspension between a failing step and the raise).
authenticate_first(g, ok) ==
    IF authenticate_greeting(g) # "continue" THEN authenticate_greeting(g)
    ELSE authenticate_send(ok)

\* aiohttp marks the socket closed when a receive finds the peer gone.
ws_after_receive == IF net = "down" THEN "closed" ELSE ws

\* What the handshake reads when the peer is already gone.
GreetingsNow == IF net = "up" THEN Greetings ELSE {"fail"}
AuthRepliesNow == IF net = "up" THEN AuthReplies ELSE {"fail"}

\* ---------------------------------------------------------------- connect
\* (variant used to test C6: the delay is not reset on success)
delay_kept(d) == d

\* self._reconnect_delay after a successful connect or reconnect.
delay_after_success(d) == initial_reconnect_delay

\* connect(), up to the await of ws_connect.
connect_start ==
    /\ ctl = "idle"
    /\ listener_task = "none"
    /\ should_reconnect' = TRUE
    /\ session' = "open"
    /\ ctl' = "connect_ws_connect"
    /\ connect_result' = "running"
    /\ UNCHANGED <<restVars, toolVars, auth_result>>
    /\ UNCHANGED <<ws, listener_task, connected, reconnect_delay, tableVars,
                   callerVars, net, wire, lpc, cancel_requested>>

\* ws_connect returns or raises.
connect_open ==
    /\ ctl = "connect_ws_connect"
    /\ \E ok \in BOOLEAN :
         IF ok
         THEN /\ ws' = "open"
              /\ net' = "up"
              /\ wire' = {}
              /\ auth_result' = "none"
              /\ ctl' = "connect_greeting"
              /\ UNCHANGED <<session, connect_result>>
         ELSE /\ session' = "none"
              /\ ctl' = "idle"
              /\ connect_result' = "HAConnectionError"
              /\ UNCHANGED <<ws, net, wire, auth_result>>
    /\ UNCHANGED <<restVars, toolVars>>
    /\ UNCHANGED <<listener_task, connected, reconnect_delay, should_reconnect,
                   tableVars, callerVars, lpc, cancel_requested>>

\* _authenticate steps 1 and 2 inside connect(): a raise leaves connect()
\* with self._ws and self._session as they are.
connect_greeting ==
    /\ ctl = "connect_greeting"
    /\ \E g \in GreetingsNow, ok \in SendOutcomes :
         IF authenticate_first(g, ok) = "continue"
         THEN /\ ctl' = "connect_auth"
              /\ UNCHANGED connect_result
         ELSE /\ ctl' = "idle"
              /\ connect_result' = authenticate_first(g, ok)
    /\ ws' = ws_after_receive
    /\ UNCHANGED <<restVars, toolVars, auth_result>>
    /\ UNCHANGED <<session, listener_task, connected, reconnect_delay,
                   should_reconnect, tableVars, callerVars, net, wire, lpc,
                   cancel_requested>>

\* _authenticate step 3 inside connect(), and the rest of connect().
connect_auth ==
    /\ ctl = "connect_auth"
    /\ \E r \in AuthRepliesNow :
         IF authenticate_result(r) = "ok"
         THEN /\ connected' = TRUE
              /\ reconnect_delay' = delay_after_success(reconnect_delay)
              /\ listener_task' = "task"
              /\ lpc' = "read"
              /\ connect_result' = "ok"
              /\ auth_result' = r
         ELSE /\ connect_result' = authenticate_result(r)
              /\ UNCHANGED <<connected, reconnect_delay, listener_task, lpc,
                             auth_result>>
    /\ ctl' = "idle"
    /\ ws' = ws_after_receive
    /\ UNCHANGED <<restVars, toolVars>>
    /\ UNCHANGED <<session, should_reconnect, tableVars, callerVars, net,
                   wire, cancel_requested>>

\* ------------------------------------------------------------- disconnect
\* (variant used to test C2: the pending futures are not failed)
fail_pending_forgotten(futs, table) == futs

\* Futures after "for future in self._pending.values(): if not done:
\* set_exception(HAConnectionLost)".
fail_pending(futs, table) ==
    [c \in Callers |->
        IF (\E i \in DOMAIN table : table[i] = c) /\ ~done(futs[c])
        THEN LostFuture ELSE futs[c]]

LiveListener == lpc \in {"read", "sleep", "ws_connect", "greeting", "auth"}

\* (variant used to test C4: the listener task is not cancelled)
cancel_skipped(task) == FALSE

\* self._listener_task.cancel(): a request only if there is a task and it
\* has not ended.
cancel(task) == task # "none" /\ LiveListener

\* disconnect() up to "await self._listener_task".
disconnect_start ==
    /\ ctl = "idle"
    /\ should_reconnect' = FALSE
    /\ connected' = FALSE
    /\ cancel_requested' = cancel(listener_task)
    /\ ctl' = "disconnect_await_task"
    /\ connect_result' = "none"
    /\ UNCHANGED <<restVars, toolVars, auth_result>>
    /\ UNCHANGED <<session, ws, listener_task, reconnect_delay, tableVars,
                   callerVars, net, wire, lpc>>

\* (variant used to test C24: the socket is closed without awaiting the
\* listener task)
disconnect_close_ws_no_wait ==
    /\ ctl = "disconnect_await_task"
    /\ listener_task' = "none"
    /\ ws' = IF ws = "open" THEN "none" ELSE ws
    /\ net' = "down"
    /\ wire' = {}
    /\ auth_result' = "none"
    /\ ctl' = "disconnect_close_session"
    /\ UNCHANGED <<restVars, toolVars>>
    /\ UNCHANGED <<session, connected, reconnect_delay, should_reconnect,
                   tableVars, callerVars, connect_result, lpc,
                   cancel_requested>>

\* The listener task has ended (or there was none): drop the reference and
\* close the socket.
disconnect_close_ws ==
    /\ ctl = "disconnect_await_task"
    /\ listener_task = "none" \/ lpc \in {"done", "cancelled"}
    /\ listener_task' = "none"
    /\ lpc' = "none"
    /\ ws' = IF ws = "open" THEN "none" ELSE ws
    /\ net' = "down"
    /\ wire' = {}
    /\ auth_result' = "none"
    /\ ctl' = "disconnect_close_session"
    /\ UNCHANGED <<restVars, toolVars>>
    /\ UNCHANGED <<session, connected, reconnect_delay, should_reconnect,
                   tableVars, callerVars, connect_result,
                   cancel_requested>>

\* (variant used to test C23: the session is left open)
disconnect_finish_keeps_session ==
    /\ ctl = "disconnect_close_session"
    /\ fut' = fail_pending(fut, pending)
    /\ pending' = EmptyTable
    /\ ctl' = "idle"
    /\ UNCHANGED <<restVars, toolVars, auth_result>>
    /\ UNCHANGED <<session, ws, listener_task, connected, reconnect_delay,
                   should_reconnect, msg_id, semaphore, cpc, cid, out, net,
                   wire, connect_result, lpc, cancel_requested>>

\* Close the session, fail what is still pending, clear the table.
disconnect_finish ==
    /\ ctl = "disconnect_close_session"
    /\ session' = IF session = "open" THEN "none" ELSE session
    /\ fut' = fail_pending(fut, pending)
    /\ pending' = EmptyTable
    /\ ctl' = "idle"
    /\ UNCHANGED <<restVars, toolVars, auth_result>>
    /\ UNCHANGED <<ws, listener_task, connected, reconnect_delay,
                   should_reconnect, msg_id, semaphore, cpc, cid, out, net,
                   wire, connect_result, lpc, cancel_requested>>

\* -------------------------------------------------------------- _listener
\* (variant used to test C1: the table read as a queue, oldest entry first)
lookup_oldest(table, i) ==
    table[CHOOSE k \in DOMAIN table : \A j \in DOMAIN table : k <= j]

\* self._pending.pop(msg_id): the future registered under the id.
lookup(table, i) == table[i]

\* (variant used to test C20: the result is set without looking at done())
route_futures_overwrite(m) ==
    IF m.kind = "result" /\ m.id \in DOMAIN pending
    THEN [fut EXCEPT ![lookup(pending, m.id)] = ResultFuture(m)]
    ELSE fut

\* Futures after the listener has handled the text message m (lines 205-215).
route_futures(m) ==
    IF m.kind = "result" /\ m.id \in DOMAIN pending
       /\ ~done(fut[lookup(pending, m.id)])
    THEN [fut EXCEPT ![lookup(pending, m.id)] = ResultFuture(m)]
    ELSE fut

\* (variant used to test C25: the entry of a future that is done is left in
\* the table)
route_table_keeps_done(m) ==
    IF m.kind = "result" /\ m.id \in DOMAIN pending
       /\ ~done(fut[lookup(pending, m.id)])
    THEN pop(pending, m.id) ELSE pending

\* The table after the listener has handled the text message m.
route_table(m) ==
    IF m.kind = "result" /\ m.id \in DOMAIN pending
    THEN pop(pending, m.id) ELSE pending

\* Where the listener task goes after "if self._should_reconnect".
after_drop == IF should_reconnect THEN "sleep" ELSE "done"

\* (variant used to test C35: the flag is left as it is)
connection_dropped_keeps_flag ==
    /\ UNCHANGED connected
    /\ fut' = fail_pending(fut, pending)
    /\ pending' = EmptyTable
    /\ lpc' = after_drop

\* Lines 234-246: the connection dropped.
connection_dropped ==
    /\ connected' = FALSE
    /\ fut' = fail_pending(fut, pending)
    /\ pending' = EmptyTable
    /\ lpc' = after_drop

\* (variant used to test C37: a frame that does not parse is discarded)
listener_receive_discards ==
    /\ lpc = "read"
    /\ ~cancel_requested
    /\ ws = "open"
    /\ net = "up"
    /\ \E m \in InboundFrames :
         /\ fut' = route_futures(m)
         /\ pending' = route_table(m)
         /\ wire' = wire \ {m.id}
         /\ UNCHANGED <<connected, lpc>>
    /\ UNCHANGED <<restVars, toolVars, auth_result>>
    /\ UNCHANGED <<session, ws, listener_task, reconnect_delay,
                   should_reconnect, msg_id, semaphore, cpc, cid, out, net,
                   ctl, connect_result, cancel_requested>>

\* One frame read by the listener: routed, discarded, or (a frame that does
\* not parse) an exception that ends the loop.
listener_receive ==
    /\ lpc = "read"
    /\ ~cancel_requested
    /\ ws = "open"
    /\ net = "up"
    /\ \E m \in InboundFrames :
         IF m.kind = "bad"
         THEN /\ connection_dropped
              /\ UNCHANGED wire
         ELSE /\ fut' = route_futures(m)
              /\ pending' = route_table(m)
              /\ wire' = wire \ {m.id}
              /\ UNCHANGED <<connected, lpc>>
    /\ UNCHANGED <<restVars, toolVars, auth_result>>
    /\ UNCHANGED <<session, ws, listener_task, reconnect_delay,
                   should_reconnect, msg_id, semaphore, cpc, cid, out, net,
                   ctl, connect_result, cancel_requested>>

\* The listener reads the close (or error) of the socket.
listener_closed ==
    /\ lpc = "read"
    /\ ~cancel_requested
    /\ net = "down"
    /\ ws' = ws_after_receive
    /\ wire' = {}
    /\ connection_dropped
    /\ UNCHANGED <<restVars, toolVars, auth_result>>
    /\ UNCHANGED <<session, listener_task, reconnect_delay, should_reconnect,
                   msg_id, semaphore, cpc, cid, out, net, ctl,
                   connect_result, cancel_requested>>

\* CancelledError reaches the listener task at the await it is suspended
\* in: caught in the read loop (the task returns), not caught in _reconnect
\* (the task ends cancelled).
listener_cancelled ==
    /\ cancel_requested
    /\ LiveListener
    /\ lpc' = IF lpc = "read" THEN "done" ELSE "cancelled"
    /\ cancel_requested' = FALSE
    /\ UNCHANGED <<restVars, toolVars, auth_result>>
    /\ UNCHANGED <<clientVars, tableVars, callerVars, net, wire, ctl,
                   connect_result>>

\* ------------------------------------------------------------- _reconnect
\* (variant used to test C7: the doubling is not capped)
next_delay_uncapped(d) == d * 2

\* self._reconnect_delay after a failed attempt.
next_delay(d) == Min(d * 2, max_reconnect_delay)

\* (variant used to test C8: the loop gives up once the delay is at its cap)
attempt_failed_gives_up ==
    /\ reconnect_delay' = next_delay(reconnect_delay)
    /\ ws' = "none"
    /\ session' = "none"
    /\ lpc' = IF reconnect_delay = max_reconnect_delay THEN "done" ELSE after_drop
    /\ net' = "down"
    /\ wire' = {}
    /\ auth_result' = "none"
    /\ UNCHANGED <<connected, listener_task>>

\* Lines 276-287: the attempt failed.
attempt_failed ==
    /\ reconnect_delay' = next_delay(reconnect_delay)
    /\ ws' = "none"
    /\ session' = "none"
    /\ lpc' = after_drop
    /\ net' = "down"
    /\ wire' = {}
    /\ auth_result' = "none"
    /\ UNCHANGED <<connected, listener_task>>

\* The sleep is over: clean up the old socket and session, open a session
\* and start ws_connect.
reconnect_wake ==
    /\ lpc = "sleep"
    /\ ~cancel_requested
    /\ ws' = "none"
    /\ session' = "open"
    /\ lpc' = "ws_connect"
    /\ net' = "down"
    /\ wire' = {}
    /\ auth_result' = "none"
    /\ UNCHANGED <<restVars, toolVars>>
    /\ UNCHANGED <<listener_task, connected, reconnect_delay, should_reconnect,
                   tableVars, callerVars, ctl, connect_result,
                   cancel_requested>>

\* (variant used to test C22: the commands of the calls still waiting are
\* written again to the new socket)
reconnect_open_resend ==
    /\ lpc = "ws_connect"
    /\ ~cancel_requested
    /\ \E ok \in BOOLEAN :
         IF ok
         THEN /\ ws' = "open"
              /\ net' = "up"
              /\ wire' = {cid[c] : c \in {d \in Callers : cpc[d] = "await"}}
              /\ lpc' = "greeting"
              /\ UNCHANGED <<session, connected, listener_task,
                             reconnect_delay, auth_result>>
         ELSE attempt_failed
    /\ UNCHANGED <<restVars, toolVars>>
    /\ UNCHANGED <<should_reconnect, tableVars, callerVars, ctl,
                   connect_result, cancel_requested>>

\* ws_connect returns or raises.
reconnect_open ==
    /\ lpc = "ws_connect"
    /\ ~cancel_requested
    /\ \E ok \in BOOLEAN :
         IF ok
         THEN /\ ws' = "open"
              /\ net' = "up"
              /\ wire' = {}
              /\ lpc' = "greeting"
              /\ UNCHANGED <<session, connected, listener_task,
                             reconnect_delay, auth_result>>
         ELSE attempt_failed
    /\ UNCHANGED <<restVars, toolVars>>
    /\ UNCHANGED <<should_reconnect, tableVars, callerVars, ctl,
                   connect_result, cancel_requested>>

\* _authenticate steps 1 and 2 inside _reconnect.
reconnect_greeting ==
    /\ lpc = "greeting"
    /\ ~cancel_requested
    /\ \E g \in GreetingsNow, ok \in SendOutcomes :
         IF authenticate_first(g, ok) = "continue"
         THEN /\ lpc' = "auth"
              /\ ws' = ws_after_receive
              /\ UNCHANGED <<session, connected, listener_task,
                             reconnect_delay, net, wire, auth_result>>
         ELSE attempt_failed
    /\ UNCHANGED <<restVars, toolVars>>
    /\ UNCHANGED <<should_reconnect, tableVars, callerVars, ctl,
                   connect_result, cancel_requested>>

\* (variant used to test C5: a successful attempt starts no listener)
reconnect_auth_no_listener ==
    /\ lpc = "auth"
    /\ ~cancel_requested
    /\ \E r \in AuthRepliesNow :
         IF authenticate_result(r) = "ok"
         THEN /\ connected' = TRUE
              /\ reconnect_delay' = delay_after_success(reconnect_delay)
              /\ listener_task' = "task"
              /\ lpc' = "done"
              /\ auth_result' = r
              /\ UNCHANGED <<ws, session, net, wire>>
         ELSE attempt_failed
    /\ UNCHANGED <<restVars, toolVars>>
    /\ UNCHANGED <<should_reconnect, tableVars, callerVars, ctl,
                   connect_result, cancel_requested>>

\* (variant used to test C34: a successful attempt starts the ids again)
reconnect_auth_resets_counter ==
    /\ lpc = "auth"
    /\ ~cancel_requested
    /\ \E r \in AuthRepliesNow :
         IF authenticate_result(r) = "ok"
         THEN /\ connected' = TRUE
              /\ reconnect_delay' = delay_after_success(reconnect_delay)
              /\ listener_task' = "task"
              /\ lpc' = "read"
              /\ auth_result' = r
              /\ msg_id' = 0
              /\ UNCHANGED <<ws, session, net, wire>>
         ELSE attempt_failed /\ UNCHANGED msg_id
    /\ UNCHANGED <<restVars, toolVars>>
    /\ UNCHANGED <<should_reconnect, pending, semaphore, callerVars, ctl,
                   connect_result, cancel_requested>>

\* _authenticate step 3 inside _reconnect; on success the new listener task
\* replaces this one.
reconnect_auth ==
    /\ lpc = "auth"
    /\ ~cancel_requested
    /\ \E r \in AuthRepliesNow :
         IF authenticate_result(r) = "ok"
         THEN /\ connected' = TRUE
              /\ reconnect_delay' = delay_after_success(reconnect_delay)
              /\ listener_task' = "task"
              /\ lpc' = "read"
              /\ auth_result' = r
              /\ UNCHANGED <<ws, session, net, wire>>
         ELSE attempt_failed
    /\ UNCHANGED <<restVars, toolVars>>
    /\ UNCHANGED <<should_reconnect, tableVars, callerVars, ctl,
                   connect_result, cancel_requested>>

\* ----------------------------------------------------------- send_command
\* (variant used to test C12: only the socket is looked at)
not_connected_flag_ignored == ws = "none" \/ ws = "closed"

\* Line 117: the call is refused.
not_connected == ~connected \/ ws = "none" \/ ws = "closed"

\* (variant used to test C19: the counter stops at its first value)
next_id_stuck(n) == IF n >= 1 THEN n ELSE n + 1

\* Lines 121-122: the next request id.
next_id(n) == n + 1

\* Line 126: self._pending[msg_id] = future
register(table, i, c) == (i :> c) @@ table

\* (variant used to test C18: a failed send leaves the entry registered)
admit_keeps_entry(c) ==
    /\ msg_id' = next_id(msg_id)
    /\ \E sent \in SendOutcomes :
         IF sent
         THEN /\ pending' = register(pending, next_id(msg_id), c)
              /\ fut' = [fut EXCEPT ![c] = PendingFuture]
              /\ wire' = IF net = "up" THEN wire \cup {next_id(msg_id)}
                         ELSE wire
              /\ semaphore' = semaphore - 1
              /\ cpc' = [cpc EXCEPT ![c] = "await"]
              /\ UNCHANGED out
              /\ cid' = [cid EXCEPT ![c] = next_id(msg_id)]
         ELSE /\ pending' = register(pending, next_id(msg_id), c)
              /\ cpc' = [cpc EXCEPT ![c] = "returned"]
              /\ out' = <<c, "HAConnectionLost">>
              /\ UNCHANGED <<wire, semaphore, fut, cid>>

\* Lines 120-137 for a caller that has its permit: allocate the id,
\* register the future, write the message.
admit(c) ==
    /\ msg_id' = next_id(msg_id)
    /\ \E sent \in SendOutcomes :
         IF sent
         THEN /\ pending' = register(pending, next_id(msg_id), c)
              /\ fut' = [fut EXCEPT ![c] = PendingFuture]
              /\ wire' = IF net = "up" THEN wire \cup {next_id(msg_id)}
                         ELSE wire
              /\ semaphore' = semaphore - 1
              /\ cpc' = [cpc EXCEPT ![c] = "await"]
              /\ UNCHANGED out
              /\ cid' = [cid EXCEPT ![c] = next_id(msg_id)]
         ELSE /\ pending' =
                   pop(register(pending, next_id(msg_id), c), next_id(msg_id))
              /\ cpc' = [cpc EXCEPT ![c] = "returned"]
              /\ out' = <<c, "HAConnectionLost">>
              /\ UNCHANGED <<wire, semaphore, fut, cid>>

\* (variant used to test C13: the call does not wait for a permit)
send_command_unbounded(c) ==
    /\ cpc[c] = "idle"
    /\ \A d \in Callers : d < c => cpc[d] # "idle"
    /\ IF not_connected
       THEN /\ cpc' = [cpc EXCEPT ![c] = "returned"]
            /\ out' = <<c, "HAConnectionError">>
            /\ UNCHANGED <<tableVars, cid, fut, wire>>
       ELSE admit(c)
    /\ UNCHANGED <<restVars, toolVars, auth_result>>
    /\ UNCHANGED <<clientVars, net, ctl, connect_result, lpc, cancel_requested>>

\* A call of send_command, up to its first suspension.  Callers are numbered
\* in the order in which they call.
send_command(c) ==
    /\ cpc[c] = "idle"
    /\ \A d \in Callers : d < c => cpc[d] # "idle"
    /\ IF not_connected
       THEN /\ cpc' = [cpc EXCEPT ![c] = "returned"]
            /\ out' = <<c, "HAConnectionError">>
            /\ UNCHANGED <<tableVars, cid, fut, wire>>
       ELSE IF semaphore > 0
            THEN admit(c)
            ELSE /\ cpc' = [cpc EXCEPT ![c] = "acquire"]
                 /\ UNCHANGED <<tableVars, cid, fut, out, wire>>
    /\ UNCHANGED <<restVars, toolVars, auth_result>>
    /\ UNCHANGED <<clientVars, net, ctl, connect_result, lpc, cancel_requested>>

\* A caller suspended in "async with self._semaphore" gets a permit.
send_command_acquired(c) ==
    /\ cpc[c] = "acquire"
    /\ semaphore > 0
    /\ admit(c)
    /\ UNCHANGED <<restVars, toolVars, auth_result>>
    /\ UNCHANGED <<clientVars, net, ctl, connect_result, lpc, cancel_requested>>

\* wait_for gives up: the future is cancelled; the caller resumes later.
send_command_timeout(c) ==
    /\ cpc[c] = "await"
    /\ fut[c].st = "pending"
    /\ fut' = [fut EXCEPT ![c] = CancelledFuture]
    /\ cpc' = [cpc EXCEPT ![c] = "TimeoutError"]
    /\ UNCHANGED <<restVars, toolVars, auth_result>>
    /\ UNCHANGED <<clientVars, tableVars, cid, out, net, wire, ctl,
                   connect_result, lpc, cancel_requested>>

\* The caller's task is cancelled from outside, while it waits for a permit
\* (nothing is held) or for its response (the future is cancelled).
send_command_cancel(c) ==
    /\ \/ /\ cpc[c] = "acquire"
          /\ cpc' = [cpc EXCEPT ![c] = "returned"]
          /\ out' = <<c, "CancelledError">>
          /\ UNCHANGED fut
       \/ /\ cpc[c] = "await"
          /\ fut[c].st = "pending"
          /\ fut' = [fut EXCEPT ![c] = CancelledFuture]
          /\ cpc' = [cpc EXCEPT ![c] = "CancelledError"]
          /\ UNCHANGED out
    /\ UNCHANGED <<restVars, toolVars, auth_result>>
    /\ UNCHANGED <<clientVars, tableVars, cid, net, wire, ctl, connect_result,
                   lpc, cancel_requested>>

\* (variant used to test C3: the permit is not released on timeout or
\* cancellation)
send_command_unwind_leak(c) ==
    /\ cpc[c] \in {"TimeoutError", "CancelledError"}
    /\ pending' = pop(pending, cid[c])
    /\ out' = <<c, cpc[c]>>
    /\ cpc' = [cpc EXCEPT ![c] = "returned"]
    /\ cid' = [cid EXCEPT ![c] = 0]
    /\ fut' = [fut EXCEPT ![c] = NoFuture]
    /\ UNCHANGED <<restVars, toolVars, auth_result>>
    /\ UNCHANGED <<clientVars, msg_id, semaphore, net, wire, ctl,
                   connect_result, lpc, cancel_requested>>

\* (variant used to test C16: the except clauses do not pop the entry)
send_command_unwind_keeps_entry(c) ==
    /\ cpc[c] \in {"TimeoutError", "CancelledError"}
    /\ semaphore' = semaphore + 1
    /\ out' = <<c, cpc[c]>>
    /\ cpc' = [cpc EXCEPT ![c] = "returned"]
    /\ cid' = [cid EXCEPT ![c] = 0]
    /\ fut' = [fut EXCEPT ![c] = NoFuture]
    /\ UNCHANGED <<restVars, toolVars, auth_result>>
    /\ UNCHANGED <<clientVars, msg_id, pending, net, wire, ctl, connect_result,
                   lpc, cancel_requested>>

\* Lines 141-146: the except clauses pop the entry and re-raise; leaving
\* the "async with" releases the permit.
send_command_unwind(c) ==
    /\ cpc[c] \in {"TimeoutError", "CancelledError"}
    /\ pending' = pop(pending, cid[c])
    /\ semaphore' = semaphore + 1
    /\ out' = <<c, cpc[c]>>
    /\ cpc' = [cpc EXCEPT ![c] = "returned"]
    /\ cid' = [cid EXCEPT ![c] = 0]
    /\ fut' = [fut EXCEPT ![c] = NoFuture]
    /\ UNCHANGED <<restVars, toolVars, auth_result>>
    /\ UNCHANGED <<clientVars, msg_id, net, wire, ctl, connect_result, lpc,
                   cancel_requested>>

\* (variant used to test C15: the success field is not looked at)
outcome_ignores_success(f) ==
    IF f.st = "exception" THEN "HAConnectionLost" ELSE "result"

\* What send_command raises or returns for a finished future (lines 140-156).
outcome(f) ==
    IF f.st = "exception" THEN "HAConnectionLost"
    ELSE IF ~f.success THEN "HAConnectionError"
    ELSE "result"

\* The future is done: the caller resumes, raises or returns, and releases
\* the permit.
send_command_return(c) ==
    /\ cpc[c] = "await"
    /\ fut[c].st \in {"exception", "result"}
    /\ out' = <<c, outcome(fut[c])>>
    /\ semaphore' = semaphore + 1
    /\ cpc' = [cpc EXCEPT ![c] = "returned"]
    /\ cid' = [cid EXCEPT ![c] = 0]
    /\ fut' = [fut EXCEPT ![c] = NoFuture]
    /\ UNCHANGED <<restVars, toolVars, auth_result>>
    /\ UNCHANGED <<clientVars, msg_id, pending, net, wire, ctl,
                   connect_result, lpc, cancel_requested>>

\* ----------------------------------------------------------- HARestClient
\* What the server may answer to an HTTP request, and how a request may
\* fail without an answer.
Statuses == {200, 304, 400, 401, 404, 500}
ContentTypes == {"json", "text"}
Failures == {"ClientConnectionError", "TimeoutError", "ClientPayloadError"}

Reply(k, st, ct) == [kind |-> k, status |-> st, ctype |-> ct]
\* A return that no HTTP call stands behind.
NoReply == Reply("none", 0, "text")
Replies ==
    {Reply("response", st, ct) : st \in Statuses, ct \in ContentTypes}
        \cup {Reply(f, 0, "text") : f \in Failures}

\* Lines 74-89: what _request makes of a response.
response_outcome(status, ctype) ==
    IF status = 401 THEN "HAAuthError"
    ELSE IF status = 404 THEN "HANotFoundError"
    ELSE IF status = 400 THEN "HAValidationError"
    ELSE IF status >= 400 THEN "HAConnectionError"
    ELSE IF ctype = "json" THEN "json"
    ELSE "text"

\* Lines 91-97: ClientConnectionError is wrapped, anything else propagates.
failure_outcome(f) ==
    IF f = "ClientConnectionError" THEN "HAConnectionError" ELSE f

request_outcome(r) ==
    IF r.kind = "response" THEN response_outcome(r.status, r.ctype)
    ELSE failure_outcome(r.kind)

\* HARestClient.connect()
rest_connect ==
    /\ rctl = "idle"
    /\ rest_session' = "open"
    /\ rest_returned' = "connect"
    /\ UNCHANGED <<rest_semaphore, rctl, rpc, rout, reply>>
    /\ UNCHANGED <<wsVars, toolVars>>

\* (variant used to test C30: close() is called also when there is no
\* session)
rest_disconnect_raises ==
    /\ rctl = "idle"
    /\ IF rest_session = "none"
       THEN /\ rest_returned' = "AttributeError"
            /\ UNCHANGED <<rest_session, rctl>>
       ELSE /\ rest_session' = "closed"
            /\ rctl' = "disconnect_close"
            /\ UNCHANGED rest_returned
    /\ UNCHANGED <<rest_semaphore, rpc, rout, reply>>
    /\ UNCHANGED <<wsVars, toolVars>>

\* HARestClient.disconnect() up to "await self._session.close()"; without a
\* session it returns at once.
rest_disconnect ==
    /\ rctl = "idle"
    /\ IF rest_session = "none"
       THEN /\ rest_returned' = "disconnect"
            /\ UNCHANGED <<rest_session, rctl>>
       ELSE /\ rest_session' = "closed"
            /\ rctl' = "disconnect_close"
            /\ UNCHANGED rest_returned
    /\ UNCHANGED <<rest_semaphore, rpc, rout, reply>>
    /\ UNCHANGED <<wsVars, toolVars>>

\* close() has returned: self._session = None.
rest_disconnect_finish ==
    /\ rctl = "disconnect_close"
    /\ rest_session' = "none"
    /\ rctl' = "idle"
    /\ rest_returned' = "disconnect"
    /\ UNCHANGED <<rest_semaphore, rpc, rout, reply>>
    /\ UNCHANGED <<wsVars, toolVars>>

\* (variant used to test C29: the request is issued without taking a permit)
issue_no_permit(c) ==
    IF rest_session = "open"
    THEN /\ rpc' = [rpc EXCEPT ![c] = "request"]
         /\ UNCHANGED <<rest_semaphore, rout, reply>>
    ELSE /\ rpc' = [rpc EXCEPT ![c] = "returned"]
         /\ rout' = <<c, IF rest_session = "none" THEN "AttributeError"
                         ELSE "RuntimeError">>
         /\ reply' = NoReply
         /\ UNCHANGED rest_semaphore

\* Line 73 for a caller that has its permit: the request is issued, or
\* self._session is None or closed by now and the call raises at once.
issue(c) ==
    IF rest_session = "open"
    THEN /\ rest_semaphore' = rest_semaphore - 1
         /\ rpc' = [rpc EXCEPT ![c] = "request"]
         /\ UNCHANGED <<rout, reply>>
    ELSE /\ rpc' = [rpc EXCEPT ![c] = "returned"]
         /\ rout' = <<c, IF rest_session = "none" THEN "AttributeError"
                         ELSE "RuntimeError">>
         /\ reply' = NoReply
         /\ UNCHANGED rest_semaphore

\* (variant used to test C28: the session is not looked at before the
\* permit is taken)
request_unchecked(c) ==
    /\ rpc[c] = "idle"
    /\ \A d \in Callers : d < c => rpc[d] # "idle"
    /\ IF rest_semaphore > 0
       THEN issue(c)
       ELSE /\ rpc' = [rpc EXCEPT ![c] = "acquire"]
            /\ UNCHANGED <<rest_semaphore, rout, reply>>
    /\ UNCHANGED <<rest_session, rctl, rest_returned>>
    /\ UNCHANGED <<wsVars, toolVars>>

\* A call of _request, up to its first suspension.  Callers are numbered in
\* the order in which they call.
request(c) ==
    /\ rpc[c] = "idle"
    /\ \A d \in Callers : d < c => rpc[d] # "idle"
    /\ IF rest_session = "none"
       THEN /\ rpc' = [rpc EXCEPT ![c] = "returned"]
            /\ rout' = <<c, "HAConnectionError">>
            /\ reply' = NoReply
            /\ UNCHANGED rest_semaphore
       ELSE IF rest_semaphore > 0
            THEN issue(c)
            ELSE /\ rpc' = [rpc EXCEPT ![c] = "acquire"]
                 /\ UNCHANGED <<rest_semaphore, rout, reply>>
    /\ UNCHANGED <<rest_session, rctl, rest_returned>>
    /\ UNCHANGED <<wsVars, toolVars>>

\* A caller suspended in "async with self._semaphore" gets a permit.
request_acquired(c) ==
    /\ rpc[c] = "acquire"
    /\ rest_semaphore > 0
    /\ issue(c)
    /\ UNCHANGED <<rest_session, rctl, rest_returned>>
    /\ UNCHANGED <<wsVars, toolVars>>

\* The HTTP call ends: the caller returns or raises and leaves the
\* "async with", which releases the permit.
request_done(c) ==
    /\ rpc[c] = "request"
    /\ \E r \in Replies :
         /\ rout' = <<c, request_outcome(r)>>
         /\ reply' = r
    /\ rest_semaphore' = rest_semaphore + 1
    /\ rpc' = [rpc EXCEPT ![c] = "returned"]
    /\ UNCHANGED <<rest_session, rctl, rest_returned>>
    /\ UNCHANGED <<wsVars, toolVars>>

\* (variant used to test C14: a cancelled request keeps its permit)
request_cancel_leak(c) ==
    /\ rpc[c] \in {"acquire", "request"}
    /\ rout' = <<c, "CancelledError">>
    /\ reply' = NoReply
    /\ rpc' = [rpc EXCEPT ![c] = "returned"]
    /\ UNCHANGED <<rest_session, rest_semaphore, rctl, rest_returned>>
    /\ UNCHANGED <<wsVars, toolVars>>

\* The caller's task is cancelled from outside, while it waits for a permit
\* (nothing is held) or for the response (the permit is released).
request_cancel(c) ==
    /\ rpc[c] \in {"acquire", "request"}
    /\ rest_semaphore' =
         IF rpc[c] = "request" THEN rest_semaphore + 1 ELSE rest_semaphore
    /\ rout' = <<c, "CancelledError">>
    /\ reply' = NoReply
    /\ rpc' = [rpc EXCEPT ![c] = "returned"]
    /\ UNCHANGED <<rest_session, rctl, rest_returned>>
    /\ UNCHANGED <<wsVars, toolVars>>

\* -------------------------------------------------------------- the tools
\* The tools that write Home Assistant configuration, by module.
AutomationTools ==
    {"create_automation", "update_automation", "delete_automation",
     "duplicate_automation"}
ScriptTools == {"create_script", "update_script", "delete_script"}
SceneTools == {"create_scene", "update_scene", "delete_scene"}
HelperTools == {"create_helper", "update_helper", "delete_helper"}
BlueprintTools == {"import_blueprint", "create_from_blueprint"}

\* The dashboard tools that read the Lovelace config, change it and save
\* it back, and the one that saves a config given by the caller.
DashboardEdits ==
    {"add_view", "update_view", "delete_view", "add_card", "update_card"}
DashboardTools == DashboardEdits \cup {"save_dashboard_config"}

Tools ==
    AutomationTools \cup ScriptTools \cup SceneTools \cup HelperTools
        \cup BlueprintTools \cup DashboardTools

\* The tools that first read from Home Assistant: the current config or
\* state of what they change, the blueprint behind the URL, or the
\* dashboard.
Fetching ==
    {"update_automation", "delete_automation", "duplicate_automation",
     "update_script", "delete_script", "update_scene", "delete_scene",
     "update_helper", "delete_helper", "import_blueprint"}
        \cup DashboardEdits

\* The tools that send validate_config before asking.
Validating ==
    {"create_automation", "update_automation", "create_script",
     "update_script"}

\* The tools that call confirm_change.
Confirming == Tools \ {"duplicate_automation"}

\* The tools that reload the domain after saving through the REST API.
Reloading ==
    AutomationTools \cup ScriptTools \cup SceneTools
        \cup {"create_from_blueprint"}

\* The values skip_confirm can take: duplicate_automation has no such
\* parameter.
SkipValues(t) == IF t \in Confirming THEN BOOLEAN ELSE {FALSE}

\* Where a tool goes after its arguments were accepted.
first_step(t) ==
    IF t \in Fetching THEN "fetch"
    ELSE IF t \in Validating THEN "validate"
    ELSE "confirm"

\* Where a tool goes after its read succeeded.
after_fetch(t) ==
    IF t \in Validating THEN "validate"
    ELSE IF t \in Confirming THEN "confirm"
    ELSE "save"

\* validation_result as the tool builds it: the script tools look only at
\* whether validate_config raised; the automation tools pass on what Home
\* Assistant answered and treat a raise as "validation skipped".
validate(t, raised, reported_valid) ==
    IF t \in ScriptTools
    THEN (IF raised THEN "invalid" ELSE "valid")
    ELSE (IF raised \/ reported_valid THEN "valid" ELSE "invalid")

\* What the MCP client may answer to the elicitation; "unsupported" is a
\* client on which ctx.elicit raises.
Answers == {"confirm", "cancel", "unsupported"}

\* confirm_change(..., validation_result, skip_confirm) with the client
\* answering as given.
confirm_change(skip, validation, answer) ==
    IF skip THEN TRUE
    ELSE IF validation = "invalid" THEN FALSE
    ELSE IF answer = "unsupported" THEN skip_confirm_default
    ELSE answer = "confirm"

\* The tool returns or raises: its locals are gone.
tool_return(s) ==
    /\ tool' = [tool EXCEPT ![s] = "none"]
    /\ tpc' = [tpc EXCEPT ![s] = "idle"]
    /\ skip_confirm' = [skip_confirm EXCEPT ![s] = FALSE]
    /\ validation_result' = [validation_result EXCEPT ![s] = "none"]
    /\ confirmed' = [confirmed EXCEPT ![s] = FALSE]
    /\ config' = [config EXCEPT ![s] = {}]

\* A tool is called: its arguments are accepted (a call whose arguments are
\* refused returns without having touched anything).  The config given to
\* save_dashboard_config holds what its caller put in it and no edit.
tool_call(s) ==
    /\ tpc[s] = "idle"
    /\ \E t \in Tools :
         /\ tool' = [tool EXCEPT ![s] = t]
         /\ tpc' = [tpc EXCEPT ![s] = first_step(t)]
         /\ \E skip \in SkipValues(t) :
              skip_confirm' = [skip_confirm EXCEPT ![s] = skip]
         /\ config' = [config EXCEPT ![s] =
                         IF t = "save_dashboard_config" THEN {Given}
                         ELSE {}]
    /\ UNCHANGED <<validation_result, confirmed, dashboard>>
    /\ UNCHANGED <<wsVars, restVars>>

\* The read returns or raises.  A dashboard edit works on the config it
\* read, with its own change made in it; when the read fails, or the edit
\* does not fit what was read, the tool ends.
tool_fetch(s) ==
    /\ tpc[s] = "fetch"
    /\ \E ok \in BOOLEAN :
         IF ok
         THEN /\ tpc' = [tpc EXCEPT ![s] = after_fetch(tool[s])]
              /\ config' = [config EXCEPT ![s] =
                              IF tool[s] \in DashboardEdits
                              THEN dashboard \cup {s} ELSE {}]
              /\ UNCHANGED <<tool, skip_confirm, validation_result,
                             confirmed>>
         ELSE tool_return(s)
    /\ UNCHANGED dashboard
    /\ UNCHANGED <<wsVars, restVars>>

\* validate_config returns or raises.
tool_validate(s) ==
    /\ tpc[s] = "validate"
    /\ \E raised \in BOOLEAN, reported_valid \in BOOLEAN :
         validation_result' = [validation_result EXCEPT ![s] =
                                 validate(tool[s], raised, reported_valid)]
    /\ tpc' = [tpc EXCEPT ![s] = "confirm"]
    /\ UNCHANGED <<tool, skip_confirm, confirmed, config, dashboard>>
    /\ UNCHANGED <<wsVars, restVars>>

\* confirm_change returns; the tool goes on to its write or ends.
tool_confirm(s) ==
    /\ tpc[s] = "confirm"
    /\ \E answer \in Answers :
         IF confirm_change(skip_confirm[s], validation_result[s], answer)
         THEN /\ confirmed' = [confirmed EXCEPT ![s] = TRUE]
              /\ tpc' = [tpc EXCEPT ![s] = "save"]
              /\ UNCHANGED <<tool, skip_confirm, validation_result, config>>
         ELSE tool_return(s)
    /\ UNCHANGED dashboard
    /\ UNCHANGED <<wsVars, restVars>>

\* The write returns or raises.  lovelace/config/save replaces the stored
\* dashboard with the config the tool holds.
tool_save(s) ==
    /\ tpc[s] = "save"
    /\ \E ok \in BOOLEAN :
         IF ok
         THEN /\ dashboard' = IF tool[s] \in DashboardTools THEN config[s]
                              ELSE dashboard
              /\ IF tool[s] \in Reloading
                 THEN /\ tpc' = [tpc EXCEPT ![s] = "reload"]
                      /\ UNCHANGED <<tool, skip_confirm, validation_result,
                                     confirmed, config>>
                 ELSE tool_return(s)
         ELSE /\ tool_return(s)
              /\ UNCHANGED dashboard
    /\ UNCHANGED <<wsVars, restVars>>

\* The reload returns or raises; the tool ends.
tool_reload(s) ==
    /\ tpc[s] = "reload"
    /\ tool_return(s)
    /\ UNCHANGED dashboard
    /\ UNCHANGED <<wsVars, restVars>>

\* ---------------------------------------------------------- specification
Next ==
    \/ server_close
    \/ connect_start
    \/ connect_open
    \/ connect_greeting
    \/ connect_auth
    \/ disconnect_start
    \/ disconnect_close_ws
    \/ disconnect_finish
    \/ listener_receive
    \/ listener_closed
    \/ listener_cancelled
    \/ reconnect_wake
    \/ reconnect_open
    \/ reconnect_greeting
    \/ reconnect_auth
    \/ \E c \in Callers : send_command(c)
    \/ \E c \in Callers : send_command_acquired(c)
    \/ \E c \in Callers : send_command_timeout(c)
    \/ \E c \in Callers : send_command_cancel(c)
    \/ \E c \in Callers : send_command_unwind(c)
    \/ \E c \in Callers : send_command_return(c)

Spec == Init /\ [][Next]_vars

\* What the event loop guarantees: a task that can run does run, and a
\* finite timeout expires.  Nothing obliges a caller to call, the owner to
\* connect or disconnect, or the server to drop the connection.
CallerFairness ==
    \A c \in Callers :
        /\ WF_vars(send_command_acquired(c))
        /\ WF_vars(send_command_timeout(c))
        /\ WF_vars(send_command_unwind(c))
        /\ WF_vars(send_command_return(c))

\* The listener task runs when it can: a close is read, a cancellation is
\* delivered, a sleep ends, ws_connect and each receive of the handshake
\* return or raise.
ListenerFairness ==
    /\ WF_vars(listener_closed)
    /\ WF_vars(listener_cancelled)
    /\ WF_vars(reconnect_wake)
    /\ WF_vars(reconnect_open)
    /\ WF_vars(reconnect_greeting)
    /\ WF_vars(reconnect_auth)

\* disconnect(), once called, runs to its end.
OwnerFairness ==
    /\ WF_vars(disconnect_close_ws)
    /\ WF_vars(disconnect_finish)

FairSpec == Spec /\ CallerFairness /\ ListenerFairness /\ OwnerFairness

\* The steps of the tools.
ToolsNext ==
    \/ \E s \in Calls : tool_call(s)
    \/ \E s \in Calls : tool_fetch(s)
    \/ \E s \in Calls : tool_validate(s)
    \/ \E s \in Calls : tool_confirm(s)
    \/ \E s \in Calls : tool_save(s)
    \/ \E s \in Calls : tool_reload(s)

\* The tools on their own: what the clients answer is left open.
ToolsSpec == Init /\ [][ToolsNext]_vars

\* The steps of the REST client.
RestNext ==
    \/ rest_connect
    \/ rest_disconnect
    \/ rest_disconnect_finish
    \/ \E c \in Callers : request(c)
    \/ \E c \in Callers : request_acquired(c)
    \/ \E c \in Callers : request_done(c)
    \/ \E c \in Callers : request_cancel(c)

\* Both clients.  They share no state, so every run of the program is a run
\* of each client on its own variables; the runs checked here are those that
\* exercise one client while the other is as constructed.
ClientsNext ==
    \/ RestInit /\ server_close
    \/ RestInit /\ connect_start
    \/ RestInit /\ connect_open
    \/ RestInit /\ connect_greeting
    \/ RestInit /\ connect_auth
    \/ RestInit /\ disconnect_start
    \/ RestInit /\ disconnect_close_ws
    \/ RestInit /\ disconnect_finish
    \/ RestInit /\ listener_receive
    \/ RestInit /\ listener_closed
    \/ RestInit /\ listener_cancelled
    \/ RestInit /\ reconnect_wake
    \/ RestInit /\ reconnect_open
    \/ RestInit /\ reconnect_greeting
    \/ RestInit /\ reconnect_auth
    \/ RestInit /\ \E c \in Callers : send_command(c)
    \/ RestInit /\ \E c \in Callers : send_command_acquired(c)
    \/ RestInit /\ \E c \in Callers : send_command_timeout(c)
    \/ RestInit /\ \E c \in Callers : send_command_cancel(c)
    \/ RestInit /\ \E c \in Callers : send_command_unwind(c)
    \/ RestInit /\ \E c \in Callers : send_command_return(c)
    \/ WsInit /\ rest_connect
    \/ WsInit /\ rest_disconnect
    \/ WsInit /\ rest_disconnect_finish
    \/ WsInit /\ \E c \in Callers : request(c)
    \/ WsInit /\ \E c \in Callers : request_acquired(c)
    \/ WsInit /\ \E c \in Callers : request_done(c)
    \/ WsInit /\ \E c \in Callers : request_cancel(c)

ClientsSpec == Init /\ [][ClientsNext]_vars

\* The REST client on its own.
RestSpec == Init /\ [][RestNext]_vars

\* ================================================================= claims
ReconnectPcs == {"sleep", "ws_connect", "greeting", "auth"}

\* The listener leaves its read loop because the socket closed or errored.
ListenerDropStep ==
    lpc = "read" /\ ~cancel_requested /\ lpc' \in {"sleep", "done"}

\* A reconnection attempt fails.
AttemptFailedStep ==
    lpc \in {"ws_connect", "greeting", "auth"} /\ lpc' \in {"sleep", "done"}

\* C1: whatever the order in which responses arrive, a future only ever
\* holds the response whose id is the id its caller put in the outgoing
\* message, and that response is what the caller's send_command returns.
C1_ResponseMatchesRequest ==
    \A c \in Callers :
        fut[c].st = "result" => (cpc[c] = "await" /\ fut[c].id = cid[c])

\* C1 witness: two calls in flight, the later one answered first.
C1_Witness ==
    \E c1, c2 \in Callers :
        /\ cpc[c1] = "await" /\ fut[c1].st = "pending"
        /\ cpc[c2] = "await" /\ fut[c2].st = "result"
        /\ cid[c1] < cid[c2]

\* C2: when the listener sees the socket close or error, on that step
\* connected becomes false, every call awaiting its response gets
\* HAConnectionLost and the table is empty; a call whose future holds
\* HAConnectionLost can only return, raising HAConnectionLost.
C2_DropFailsAllPending ==
    /\ [][ListenerDropStep =>
            /\ connected' = FALSE
            /\ pending' = EmptyTable
            /\ \A c \in Callers :
                 (cpc[c] = "await" /\ fut[c].st = "pending")
                    => (cpc'[c] = "await" /\ fut'[c] = LostFuture)]_vars
    /\ [][\A c \in Callers :
            (fut[c].st = "exception" /\ cpc'[c] # cpc[c])
                => (cpc'[c] = "returned" /\ out' = <<c, "HAConnectionLost">>)]_vars

\* C2 witness: the socket dropped under two outstanding calls.
C2_Witness ==
    /\ lpc = "sleep"
    /\ ws = "closed"
    /\ ~connected
    /\ pending = EmptyTable
    /\ Cardinality({c \in Callers :
                       cpc[c] = "await" /\ fut[c].st = "exception"}) = 2

\* C3: under fair scheduling every send_command that has been called
\* returns to its caller, wherever it is suspended.
C3_EveryCallReturns ==
    \A c \in Callers :
        (cpc[c] \in {"acquire", "await", "TimeoutError", "CancelledError"})
            ~> (cpc[c] = "returned")

\* C3 witness: a call waiting for a permit while disconnect() is under way
\* and the two permit holders wait for responses.
C3_Witness ==
    /\ ctl = "disconnect_await_task"
    /\ \E c \in Callers : cpc[c] = "acquire"
    /\ Cardinality({c \in Callers :
                       cpc[c] = "await" /\ fut[c].st = "pending"}) = 2

\* C4: from disconnect() on (should_reconnect is false until the next
\* connect()), the client is not connected, a send_command call fails with
\* HAConnectionError and changes nothing, and the listener task takes no
\* step of the reconnection procedure.
C4_NoRecoveryAfterDisconnect ==
    /\ [](~should_reconnect => ~connected)
    /\ [][\A c \in Callers :
            (~should_reconnect /\ cpc[c] = "idle" /\ cpc'[c] # "idle")
                => /\ cpc'[c] = "returned"
                   /\ out' = <<c, "HAConnectionError">>
                   /\ UNCHANGED <<tableVars, wire, cid, fut>>]_vars
    /\ [][~should_reconnect =>
            ~(reconnect_wake \/ reconnect_open \/ reconnect_greeting
                \/ reconnect_auth)]_vars
    /\ []((~should_reconnect /\ ctl = "idle") => lpc = "none")

\* C4 witness: disconnect() ran while the reconnection procedure was at
\* work after failed attempts, and the latest send_command was refused.
C4_Witness ==
    /\ ~should_reconnect
    /\ ctl = "idle"
    /\ lpc = "none"
    /\ reconnect_delay > initial_reconnect_delay
    /\ \E c \in Callers : cpc[c] = "returned" /\ out = <<c, "HAConnectionError">>

\* A connection is established and a listener reads the new socket.
Recovered == connected /\ lpc = "read" /\ ws = "open"

\* C5: if from some point on no reconnection attempt fails, then whenever
\* the reconnection procedure is at work it leads to a connected client
\* whose listener reads the new socket (unless disconnect() is called), and
\* a send_command called on the recovered client is not refused.
C5_ReconnectRecovers ==
    /\ (<>[][~AttemptFailedStep]_vars)
          => ((lpc \in ReconnectPcs /\ should_reconnect)
                 ~> (Recovered \/ ~should_reconnect))
    /\ [][\A c \in Callers :
            (Recovered /\ net = "up" /\ cpc[c] = "idle" /\ cpc'[c] # "idle")
               => (cpc'[c] \in {"await", "acquire"})]_vars

\* C5 witness: the socket dropped under an outstanding call, a first
\* attempt failed, and the second attempt has the server's greeting and
\* waits for the auth reply of a server that is up.
C5_Witness ==
    /\ lpc = "auth"
    /\ should_reconnect
    /\ net = "up"
    /\ reconnect_delay = 2
    /\ \E c \in Callers : cpc[c] = "await" /\ fut[c].st = "exception"

\* C6: the delay decreases only on a step that establishes the connection,
\* and on every such step it is 1.
C6_BackoffMonotoneAndReset ==
    /\ [][reconnect_delay' >= reconnect_delay
            \/ (connected' /\ ~connected)]_vars
    /\ [][(connected' /\ ~connected)
            => reconnect_delay' = initial_reconnect_delay]_vars

\* C6 witness: a reconnection attempt after several failures is about to
\* get its auth reply.
C6_Witness ==
    /\ lpc = "auth"
    /\ reconnect_delay = 16

\* C7: the delay starts at 1, is 1 whenever a listener reads a socket, a
\* failed attempt sets it to min(2 * delay, 60), and it is always one of
\* 1, 2, 4, 8, 16, 32, 60.
C7_BackoffSequence ==
    /\ reconnect_delay = initial_reconnect_delay
    /\ [](reconnect_delay \in {1, 2, 4, 8, 16, 32, 60})
    /\ [](lpc = "read" => reconnect_delay = initial_reconnect_delay)
    /\ [][AttemptFailedStep =>
            reconnect_delay' = Min(2 * reconnect_delay, 60)]_vars

\* C7 witness: sleeping at the cap.
C7_Witness ==
    /\ lpc = "sleep"
    /\ reconnect_delay = max_reconnect_delay

\* C8: after a failed attempt, whatever its cause and however many came
\* before, the procedure sleeps and tries again; it ends only by a
\* successful attempt or by the cancellation disconnect() requests.
C8_RetriesWithoutLimit ==
    /\ [][AttemptFailedStep => lpc' = "sleep"]_vars
    /\ [][(lpc \in ReconnectPcs /\ lpc' \notin ReconnectPcs)
            => \/ (connected' /\ lpc' = "read")
               \/ (~should_reconnect /\ lpc' = "cancelled")]_vars

\* C8 witness: an attempt under way with the delay at its cap.
C8_Witness ==
    /\ lpc = "ws_connect"
    /\ reconnect_delay = max_reconnect_delay

\* C9: when connect() ends with HAAuthError the socket and the session are
\* closed, connected is false and there is no listener task.
C9_AuthInvalidClosesSocket ==
    (ctl = "idle" /\ connect_result = "HAAuthError" /\ should_reconnect)
        => /\ ws # "open"
           /\ session # "open"
           /\ ~connected
           /\ listener_task = "none"

\* C10: when connect() fails for any reason other than auth_invalid, it
\* raises HAConnectionError, the socket is closed, connected is false and
\* there is no listener task.
C10_HandshakeFailureClosesSocket ==
    (ctl = "idle" /\ connect_result \in {"HAConnectionError", "Exception"}
        /\ should_reconnect)
        => /\ connect_result = "HAConnectionError"
           /\ ws # "open"
           /\ ~connected
           /\ listener_task = "none"

\* The states of the connection state machine.
Phase ==
    IF connected THEN "Connected"
    ELSE IF ctl = "connect_ws_connect" THEN "Connecting"
    ELSE IF ctl \in {"connect_greeting", "connect_auth"}
            \/ lpc \in {"greeting", "auth"} THEN "Authenticating"
    ELSE IF lpc \in {"sleep", "ws_connect"} THEN "Reconnecting"
    ELSE "Disconnected"

\* Its edges: the ones the state machine names, and the ways back after a
\* failure or a disconnect().
PhaseEdges ==
    {<<"Disconnected", "Connecting">>,
     <<"Connecting", "Authenticating">>,
     <<"Authenticating", "Connected">>,
     <<"Connected", "Disconnected">>,
     <<"Connected", "Reconnecting">>,
     <<"Reconnecting", "Authenticating">>,
     <<"Connecting", "Disconnected">>,
     <<"Authenticating", "Disconnected">>,
     <<"Authenticating", "Reconnecting">>,
     <<"Reconnecting", "Disconnected">>}

\* C11: the client moves along the edges of the state machine; connected
\* becomes true only on the step on which _authenticate reads auth_ok on
\* the current socket, and on that step the delay is set to its floor and a
\* listener task is started that reads that socket.
C11_ConnectedOnlyAfterAuthOk ==
    /\ [][Phase' # Phase => <<Phase, Phase'>> \in PhaseEdges]_vars
    /\ [][(connected' /\ ~connected) =>
            /\ ctl = "connect_auth" \/ lpc = "auth"
            /\ ws = "open" /\ ws' = "open"
            /\ auth_result = "none" /\ auth_result' = "auth_ok"
            /\ reconnect_delay' = initial_reconnect_delay
            /\ listener_task' = "task"
            /\ lpc' = "read"]_vars
    /\ [](connected => auth_result = "auth_ok")

\* C11 witness: connected again after the connection dropped, while a call that
\* lost its response on the previous socket has not resumed yet.
C11_Witness ==
    /\ connected
    /\ lpc = "read"
    /\ ws = "open"
    /\ auth_result = "auth_ok"
    /\ \E c \in Callers : cpc[c] = "await" /\ fut[c].st = "exception"

\* C12: a send_command called while connected is false (or the socket is
\* missing or closed) returns at once with HAConnectionError and changes
\* neither the permits, nor the id counter, nor the table, nor what is on
\* the wire.
C12_RefusedCallChangesNothing ==
    [][\A c \in Callers :
         ((~connected \/ ws # "open") /\ cpc[c] = "idle" /\ cpc'[c] # "idle")
            => /\ cpc'[c] = "returned"
               /\ out' = <<c, "HAConnectionError">>
               /\ UNCHANGED <<semaphore, msg_id, pending, wire, cid, fut>>]_vars

\* C12 witness: a call was refused while connect() was in its handshake on
\* an open socket, and no call was ever admitted.
C12_Witness ==
    /\ ctl = "connect_auth"
    /\ ws = "open"
    /\ ~connected
    /\ msg_id = 0
    /\ \E c \in Callers : cpc[c] = "returned" /\ out = <<c, "HAConnectionError">>

\* The calls that hold a permit.
PermitHolders ==
    {c \in Callers : cpc[c] \in {"await", "TimeoutError", "CancelledError"}}

\* C13: at most as many calls as there are permits are past the
\* acquisition, and the table holds at most as many entries.
C13_InFlightBounded ==
    /\ Cardinality(PermitHolders) <= MaxPermits
    /\ Cardinality(DOMAIN pending) <= MaxPermits
    /\ semaphore >= 0

\* C13 witness: every permit is taken, the table is full and a further
\* caller waits.
C13_Witness ==
    /\ Cardinality(PermitHolders) = MaxPermits
    /\ Cardinality(DOMAIN pending) = MaxPermits
    /\ \E c \in Callers : cpc[c] = "acquire"

\* The HTTP requests that hold a permit.
RequestHolders == {c \in Callers : rpc[c] = "request"}

\* C14: in both pools the permits taken are exactly those of the calls
\* between acquisition and return, whichever way the earlier calls ended;
\* with no call active every permit is free.
C14_PermitsReleased ==
    /\ semaphore = MaxPermits - Cardinality(PermitHolders)
    /\ rest_semaphore = MaxRestPermits - Cardinality(RequestHolders)

\* C14 witness: every HTTP request has ended, the last one by cancellation
\* of its caller, and all permits are back.
C14_Witness ==
    /\ \A c \in Callers : rpc[c] = "returned"
    /\ rout = <<NumCallers, "CancelledError">>
    /\ rest_session = "open"
    /\ rest_semaphore = MaxRestPermits

\* What a step that concerns one call only leaves alone: the connection,
\* the listener and the reconnection state.
ConnectionVars ==
    <<connected, ws, session, net, lpc, listener_task, should_reconnect,
      reconnect_delay, cancel_requested>>

\* The callers other than c are where they were, with the futures they had.
OthersUntouched(c) ==
    \A d \in Callers \ {c} : fut'[d] = fut[d] /\ cpc'[d] = cpc[d]

\* The table keeps every entry except possibly the one under id i.
OtherEntriesKept(i) ==
    \A j \in (DOMAIN pending) \ {i} :
        j \in DOMAIN pending' /\ pending'[j] = pending[j]

\* C15: a response with success=false is routed to its call like any other
\* and that call raises HAConnectionError; neither step changes connected,
\* the socket, the listener, the reconnection state, or the entries and
\* futures of other calls.
C15_RejectionIsOnlyAnError ==
    /\ [][\A c \in Callers :
            (fut[c].st = "pending" /\ fut'[c].st = "result"
                /\ ~fut'[c].success)
               => /\ fut'[c].id = cid[c]
                  /\ UNCHANGED ConnectionVars
                  /\ OthersUntouched(c)
                  /\ OtherEntriesKept(cid[c])]_vars
    /\ [][\A c \in Callers :
            (cpc[c] = "await" /\ fut[c].st = "result" /\ ~fut[c].success
                /\ cpc'[c] # "await")
               => /\ cpc'[c] = "returned"
                  /\ out' = <<c, "HAConnectionError">>
                  /\ UNCHANGED ConnectionVars
                  /\ UNCHANGED pending
                  /\ OthersUntouched(c)]_vars

\* C15 witness: one of two calls in flight has been answered success=false
\* and has not resumed yet; the client is connected and its listener reads.
C15_Witness ==
    /\ connected
    /\ lpc = "read"
    /\ \E c, d \in Callers :
         /\ cpc[c] = "await" /\ fut[c].st = "result" /\ ~fut[c].success
         /\ cpc[d] = "await" /\ fut[d].st = "pending"

\* C16: a call that timed out raises TimeoutError, whatever happens to the
\* connection before it resumes; when it returns its entry is not in the
\* table; neither the expiry nor the return changes connected, the socket,
\* the listener, the reconnection state or the entries and futures of
\* other calls.
C16_TimeoutIsOnlyATimeout ==
    /\ [][\A c \in Callers :
            (cpc[c] = "await" /\ cpc'[c] = "TimeoutError")
               => /\ UNCHANGED ConnectionVars
                  /\ UNCHANGED pending
                  /\ OthersUntouched(c)]_vars
    /\ [][\A c \in Callers :
            (cpc[c] = "TimeoutError" /\ cpc'[c] # "TimeoutError")
               => /\ cpc'[c] = "returned"
                  /\ out' = <<c, "TimeoutError">>
                  /\ cid[c] \notin DOMAIN pending'
                  /\ OtherEntriesKept(cid[c])
                  /\ UNCHANGED ConnectionVars
                  /\ OthersUntouched(c)]_vars

\* C16 witness: a call has timed out and not resumed yet, its entry still
\* in the table next to the entry of a call that still waits.
C16_Witness ==
    \E c, d \in Callers :
        /\ cpc[c] = "TimeoutError"
        /\ cid[c] \in DOMAIN pending
        /\ cpc[d] = "await" /\ fut[d].st = "pending"
        /\ cid[d] \in DOMAIN pending

\* C17: cancelling a call that waits for its response removes its entry
\* and no other, and changes neither connected, nor the listener, nor the
\* socket; every other call that waits for its response on a live
\* connection keeps its entry, under which its response is routed.
C17_CancelTouchesOneEntry ==
    /\ [][\A c \in Callers :
            (cpc[c] = "await" /\ cpc'[c] = "CancelledError")
               => /\ fut'[c] = CancelledFuture
                  /\ UNCHANGED ConnectionVars
                  /\ UNCHANGED <<pending, wire>>
                  /\ OthersUntouched(c)]_vars
    /\ [][\A c \in Callers :
            (cpc[c] = "CancelledError" /\ cpc'[c] # "CancelledError")
               => /\ cpc'[c] = "returned"
                  /\ out' = <<c, "CancelledError">>
                  /\ cid[c] \notin DOMAIN pending'
                  /\ OtherEntriesKept(cid[c])
                  /\ UNCHANGED ConnectionVars
                  /\ UNCHANGED wire
                  /\ OthersUntouched(c)]_vars
    /\ [](\A d \in Callers :
            (cpc[d] = "await" /\ fut[d].st = "pending")
               => (cid[d] \in DOMAIN pending /\ pending[cid[d]] = d))

\* C17 witness: the first of two calls (it never waited for a permit) was
\* cancelled and has returned; the second is still in the table, its
\* command on the wire of a connected client.
C17_Witness ==
    /\ cpc[1] = "returned" /\ out = <<1, "CancelledError">>
    /\ cpc[2] = "await" /\ fut[2].st = "pending"
    /\ cid[2] = 2
    /\ DOMAIN pending = {2}
    /\ 2 \in wire
    /\ connected /\ lpc = "read"

\* C18: a call whose write to the socket fails (it allocated an id and
\* returned in the same step) raises HAConnectionLost, and the id it had
\* registered is not in the table.
C18_SendFailureUnregisters ==
    [][\A c \in Callers :
         (cpc[c] \in {"idle", "acquire"} /\ cpc'[c] = "returned"
             /\ msg_id' # msg_id)
            => /\ out' = <<c, "HAConnectionLost">>
               /\ msg_id' \notin DOMAIN pending'
               /\ OtherEntriesKept(msg_id')]_vars

\* C18 witness: the second call raised HAConnectionLost while the first
\* still waits on a pending future, so no connection loss was noticed since
\* the first call registered: the second call's write failed.  Its id is
\* not in the table.
C18_Witness ==
    /\ cpc[1] = "await" /\ fut[1].st = "pending" /\ cid[1] = 1
    /\ cpc[2] = "returned" /\ out = <<2, "HAConnectionLost">>
    /\ msg_id = 2
    /\ DOMAIN pending = {1}

\* C19: the id counter never decreases; an id given to a call is the new
\* value of the counter, larger than every id given before, so the calls
\* that hold an id hold different ones and a new id is never in the table.
C19_IdsIncreaseNeverReused ==
    /\ [][msg_id' >= msg_id]_vars
    /\ [][\A c \in Callers :
            (cid'[c] # cid[c] /\ cid'[c] # 0)
               => /\ cid'[c] = msg_id'
                  /\ msg_id' > msg_id
                  /\ \A d \in Callers \ {c} : cid'[d] = cid[d]]_vars
    /\ [](\A c, d \in Callers : (c # d /\ cid[c] # 0) => cid[c] # cid[d])
    /\ [](\A i \in DOMAIN pending : i >= 1 /\ i <= msg_id)
    /\ [](\A c \in Callers : cid[c] <= msg_id)

\* C19 witness: every caller has been given an id, while calls given
\* earlier ids are still in flight.
C19_Witness ==
    /\ msg_id = NumCallers
    /\ \E c, d \in Callers :
         /\ cid[c] = NumCallers
         /\ cid[d] # 0 /\ cid[d] < cid[c]
         /\ cpc[d] = "await"

\* C20: a future that is done keeps its outcome until its call returns,
\* whichever site tries to fulfil it again; a pending future is fulfilled
\* with the response carrying its id or with a failure; a call that waits
\* resumes only on a done future.
C20_FulfilledOnce ==
    /\ [][\A c \in Callers :
            done(fut[c])
               => \/ fut'[c] = fut[c]
                  \/ (fut'[c] = NoFuture /\ cpc'[c] = "returned")]_vars
    /\ [][\A c \in Callers :
            (fut[c].st = "pending" /\ fut'[c] # fut[c])
               => /\ done(fut'[c])
                  /\ fut'[c].st = "result" => fut'[c].id = cid[c]]_vars
    /\ [][\A c \in Callers :
            (cpc[c] = "await" /\ cpc'[c] = "returned") => done(fut[c])]_vars

\* C20 witness: the response to a call that had timed out arrived before the
\* call resumed: the listener took the entry out of the table and left the
\* cancelled future as it was (the first call still waits, so the table was
\* not swept).
C20_Witness ==
    /\ cpc[1] = "await" /\ fut[1].st = "pending" /\ cid[1] = 1
    /\ cpc[2] = "TimeoutError" /\ fut[2].st = "cancelled" /\ cid[2] = 2
    /\ DOMAIN pending = {1}
    /\ connected /\ lpc = "read"

\* C21: whenever connected is false the correlation table is empty.
C21_NoEntryWhileDisconnected ==
    ~connected => pending = EmptyTable

\* C22: every id written to a socket is the id just allocated, larger than
\* every id written before: no command is written twice, on the same
\* socket or on a later one.
C22_NoRetry ==
    /\ [][\A i \in wire' \ wire : i = msg_id' /\ msg_id' > msg_id]_vars
    /\ [](\A i \in wire : i >= 1 /\ i <= msg_id)

\* C22 witness: connected again, a new command on the new socket, while a
\* call that lost its response on the previous socket has not resumed and
\* its command is not on the new socket.
C22_Witness ==
    /\ connected
    /\ lpc = "read"
    /\ net = "up"
    /\ \E c, d \in Callers :
         /\ cpc[c] = "await" /\ fut[c].st = "exception"
         /\ cid[c] \notin wire
         /\ cpc[d] = "await" /\ fut[d].st = "pending"
         /\ cid[d] \in wire

\* disconnect() has returned and connect() was not called since.
DisconnectReturned == ctl = "idle" /\ ~should_reconnect

C24_ListenerEndsBeforeClose ==
    /\ [][(ctl = "disconnect_await_task" /\ ctl' # ctl) => ~LiveListener]_vars
    /\ [](ctl = "disconnect_close_session" =>
            (lpc = "none" /\ ~cancel_requested))

\* C24 witness: disconnect() has closed the socket and not yet the
\* session, with a call still in the table; the listener task has ended.
C24_Witness ==
    /\ ctl = "disconnect_close_session"
    /\ lpc = "none"
    /\ pending # EmptyTable
    /\ session = "open"

\* C25: when the listener reads the response for an id that is no longer
\* in the table, or whose future is done, nothing is delivered: every
\* future and every caller is as before, no entry appears, the id's entry
\* (if any) goes, and the connection and the listener are unchanged.
C25_LateResponseDiscarded ==
    [][\A i \in wire :
         (lpc = "read" /\ lpc' = "read" /\ wire' = wire \ {i}
             /\ (i \notin DOMAIN pending \/ done(fut[pending[i]])))
            => /\ fut' = fut
               /\ cpc' = cpc
               /\ out' = out
               /\ DOMAIN pending' = (DOMAIN pending) \ {i}
               /\ OtherEntriesKept(i)
               /\ UNCHANGED ConnectionVars]_vars

\* C25 witness: the second call timed out and returned, and its response
\* was read afterwards (its id is off the wire of a socket that was up all
\* along, since the first call still waits there).
C25_Witness ==
    /\ cpc[1] = "await" /\ fut[1].st = "pending" /\ cid[1] = 1
    /\ wire = {1}
    /\ net = "up"
    /\ lpc = "read"
    /\ DOMAIN pending = {1}
    /\ msg_id = 2
    /\ cpc[2] = "returned" /\ out = <<2, "TimeoutError">>

\* C26: while the socket is neither closed nor in error, a step of the
\* listener leaves it in its read loop with connected and should_reconnect
\* as they were.
C26_UncorrelatedFramesDiscarded ==
    [][(lpc = "read" /\ net = "up" /\ ws = "open" /\ ~cancel_requested
           /\ ctl' = ctl)
          => /\ lpc' = "read"
             /\ connected' = connected
             /\ should_reconnect' = should_reconnect]_vars

\* The typed result the mapping assigns to the way an HTTP call ended.
TypedResult(r) ==
    IF r.kind # "response" THEN "HAConnectionError"
    ELSE IF r.status = 401 THEN "HAAuthError"
    ELSE IF r.status = 404 THEN "HANotFoundError"
    ELSE IF r.status = 400 THEN "HAValidationError"
    ELSE IF r.status < 200 \/ r.status > 299 THEN "HAConnectionError"
    ELSE IF r.ctype = "json" THEN "json"
    ELSE "text"

\* C27: a _request that ends with the end of its HTTP call returns or
\* raises what the mapping assigns to that end; in particular no status
\* outside 2xx comes back as a body.
C27_EveryOutcomeTyped ==
    reply.kind # "none" => rout[2] = TypedResult(reply)

\* C28: a _request called while there is no session raises
\* HAConnectionError at once, takes no permit and issues no HTTP call.
C28_NoHandleRefused ==
    [][\A c \in Callers :
         (rest_session = "none" /\ rpc[c] = "idle" /\ rpc'[c] # "idle")
            => /\ rpc'[c] = "returned"
               /\ rout' = <<c, "HAConnectionError">>
               /\ reply' = NoReply
               /\ rest_semaphore' = rest_semaphore
               /\ \A d \in Callers : rpc'[d] = "request" => rpc[d] = "request"]_vars

\* C28 witness: the second call was refused after disconnect(): the first
\* call, made earlier on a connected client, is still in flight.
C28_Witness ==
    /\ rest_session = "none"
    /\ rest_returned = "disconnect"
    /\ rpc[1] = "request"
    /\ rpc[2] = "returned" /\ rout = <<2, "HAConnectionError">>
    /\ reply = NoReply

\* C29: never more HTTP requests are outstanding than the pool has
\* permits, and a request is issued only when fewer are.
C29_RequestsBounded ==
    /\ [](Cardinality(RequestHolders) <= MaxRestPermits)
    /\ [](rest_semaphore >= 0)
    /\ [][\A c \in Callers :
            (rpc[c] # "request" /\ rpc'[c] = "request")
               => Cardinality(RequestHolders) < MaxRestPermits]_vars

\* C29 witness: every permit is taken and a further caller waits.
C29_Witness ==
    /\ Cardinality(RequestHolders) = MaxRestPermits
    /\ rest_semaphore = 0
    /\ \E c \in Callers : rpc[c] = "acquire"

\* C30: disconnect() of the REST client never raises; when it has returned
\* there is no session; called on a client without a session it returns
\* leaving everything as it was.
C30_DisconnectIdempotent ==
    /\ [](rest_returned \in {"none", "connect", "disconnect"})
    /\ []((rest_returned = "disconnect" /\ rctl = "idle")
             => rest_session = "none")
    /\ [][(rest_session = "none" /\ rest_returned # "disconnect"
              /\ rest_returned' = "disconnect")
            => /\ rest_session' = "none"
               /\ UNCHANGED <<rest_semaphore, rctl, rpc, rout, reply>>]_vars

\* C30 witness: disconnect() has returned on a client without a session
\* whose only call so far was refused.
C30_Witness ==
    /\ rest_returned = "disconnect"
    /\ rest_session = "none"
    /\ rctl = "idle"
    /\ rpc[1] = "returned" /\ rout = <<1, "HAConnectionError">>
    /\ reply = NoReply
    /\ rpc[2] = "idle"

\* A step in which a new socket is stored in self._ws: ws_connect returned
\* in connect() (line 53) or in _reconnect (line 266).
InstallsSocket ==
    \/ ctl = "connect_ws_connect" /\ ctl' = "connect_greeting"
    \/ lpc = "ws_connect" /\ lpc' = "greeting"

\* A step in which connect() starts a reader task (line 65).
ConnectStartsReader == ctl = "connect_auth" /\ lpc' = "read"

\* C33: a client has at most one open socket and one reader task: a new
\* socket is stored only when the one it replaces is closed (or there was
\* none), and connect() starts a reader only when no earlier reader is alive.
C33_OneSocketOneReader ==
    [][/\ InstallsSocket => ws # "open"
       /\ ConnectStartsReader => ~LiveListener]_vars

\* A step of connect(), disconnect(), the listener or _reconnect: one that
\* changes the socket, the session, the reader task or their position.
ConnectionStep ==
    \/ ctl' # ctl
    \/ lpc' # lpc
    \/ ws' # ws
    \/ session' # session
    \/ listener_task' # listener_task

\* C34: the id counter is never reset.  No step of connect(), disconnect(),
\* the listener or _reconnect changes it, every other step leaves it or adds
\* one, and an id written to the current socket is above the counter as it
\* was, hence above every id written to an earlier socket.
C34_CounterNeverReset ==
    /\ [][ConnectionStep => msg_id' = msg_id]_vars
    /\ [][msg_id' \in {msg_id, msg_id + 1}]_vars
    /\ [][\A i \in wire' \ wire : i = msg_id + 1]_vars

\* C34 witness: the call with id 1 was failed by a drop and has not resumed
\* yet; after the reconnection the next call was written to the new socket
\* with id 2.
C34_Witness ==
    /\ connected /\ lpc = "read" /\ ws = "open"
    /\ cpc[1] = "await" /\ cid[1] = 1 /\ fut[1] = LostFuture
    /\ cpc[2] = "await" /\ cid[2] = 2 /\ fut[2] = PendingFuture
    /\ wire = {2}
    /\ msg_id = 2
    /\ should_reconnect

\* C35: while the listener task is in _reconnect (from the step in which it
\* found the connection dropped until a handshake succeeds) connected is
\* false; it becomes true again only in the step in which the auth result is
\* accepted; a call started in between returns at once with
\* HAConnectionError and leaves nothing behind to be sent later.
C35_RefusedWhileReconnecting ==
    /\ [](lpc \in ReconnectPcs => ~connected)
    /\ [][(lpc \in ReconnectPcs /\ connected')
            => (lpc = "auth" /\ lpc' = "read")]_vars
    /\ [][\A c \in Callers :
            (lpc \in ReconnectPcs /\ cpc[c] = "idle" /\ cpc'[c] # "idle")
               => /\ cpc'[c] = "returned"
                  /\ out' = <<c, "HAConnectionError">>
                  /\ UNCHANGED <<pending, wire, msg_id, semaphore, fut,
                                 cid>>]_vars

\* C35 witness: the command with id 1 was written to the socket the client
\* still holds, the listener then left its loop (the call is failed, not yet
\* resumed) and sleeps before its first attempt; the second call, made
\* after the first, was refused.
C35_Witness ==
    /\ lpc = "sleep" /\ ~connected /\ should_reconnect
    /\ ws = "open" /\ net = "up" /\ wire = {1}
    /\ cpc[1] = "await" /\ cid[1] = 1 /\ fut[1] = LostFuture
    /\ cpc[2] = "returned" /\ out = <<2, "HAConnectionError">>
    /\ msg_id = 1 /\ pending = EmptyTable
    /\ cpc[3] = "idle"

\* C36: a call that waited for its permit while the connection dropped gets
\* the permit with the connection still down (the drop was handled, no
\* disconnect() is running, no handshake is under way on a new socket): it
\* then fails at once with HAConnectionLost and leaves no entry in the
\* table; it is written to a socket only once the connection is back.
C36_PermitWaiterAfterDrop ==
    [][\A c \in Callers :
         (/\ cpc[c] = "acquire" /\ msg_id' # msg_id
          /\ ~connected /\ ctl = "idle"
          /\ lpc \notin {"greeting", "auth"})
            => /\ cpc'[c] = "returned"
               /\ out' = <<c, "HAConnectionLost">>
               /\ pending' = pending]_vars

\* The listener leaves its read loop although the socket is healthy and
\* nobody cancelled the task: handling a frame raised (line 231).
FrameRaised ==
    /\ lpc = "read" /\ lpc' # "read"
    /\ ws = "open" /\ net = "up" /\ ~cancel_requested

\* C37: a frame whose handling raises ends the read loop like a closure
\* does: connected becomes false, every pending future in the table is
\* failed with HAConnectionLost, the table is cleared, _reconnect starts if
\* should_reconnect is set, and the socket is left as it was; a healthy
\* socket can always deliver such a frame.
C37_FrameErrorIsADrop ==
    /\ [][FrameRaised
            => /\ ~connected'
               /\ pending' = EmptyTable
               /\ \A c \in Callers :
                    fut'[c] = IF c \in {pending[i] : i \in DOMAIN pending}
                                 /\ fut[c].st = "pending"
                              THEN LostFuture ELSE fut[c]
               /\ lpc' = IF should_reconnect THEN "sleep" ELSE "done"
               /\ UNCHANGED <<ws, net, session, wire, listener_task,
                              msg_id, semaphore, cpc>>]_vars
    /\ []((lpc = "read" /\ ws = "open" /\ net = "up" /\ ~cancel_requested)
             => ENABLED (listener_receive /\ lpc' # "read"))

\* C37 witness: two calls were waiting when a frame raised; both are failed
\* and not yet resumed, the table is empty, the socket is still open with
\* their commands on it, and the listener sleeps before its first attempt.
C37_Witness ==
    /\ lpc = "sleep" /\ ~connected /\ should_reconnect
    /\ ws = "open" /\ net = "up" /\ session = "open"
    /\ wire = {1, 2}
    /\ pending = EmptyTable
    /\ \A c \in {1, 2} :
         cpc[c] = "await" /\ cid[c] = c /\ fut[c] = LostFuture
    /\ reconnect_delay = initial_reconnect_delay

\* C38: a request that waited for its permit and gets it once disconnect()
\* has released the session (self._session is None) fails with
\* HAConnectionError: it raises nothing else and issues no HTTP call.
C38_PermitWaiterAfterDisconnect ==
    [][\A c \in Callers :
         (/\ rpc[c] = "acquire" /\ rpc'[c] # "acquire"
          /\ rout' # <<c, "CancelledError">>
          /\ rest_session = "none")
            => /\ rpc'[c] = "returned"
               /\ rout' = <<c, "HAConnectionError">>]_vars

\* A tool call that is at its write, or past it at the reload.
Writing(s) == tpc[s] \in {"save", "reload"}

\* C31: a tool that changes configuration is at its write or at the reload
\* only after confirm_change returned True to it.
C31_ConfirmedBeforeWrite ==
    \A s \in Calls : Writing(s) => confirmed[s]

\* C32: create_script and update_script never get to save_script_config
\* with a validation result that says invalid, whatever skip_confirm is.
C32_InvalidScriptNeverSaved ==
    \A s \in Calls :
        (tool[s] \in {"create_script", "update_script"} /\ Writing(s))
            => validation_result[s] # "invalid"

\* C39: the save of a dashboard edit keeps every edit the stored dashboard
\* contains: no edit of another call is lost.
C39_NoEditLost ==
    [][\A s \in Calls :
         (tpc[s] = "save" /\ tool[s] \in DashboardEdits)
            => (dashboard \cap Calls) \subseteq dashboard']_vars

====
